---- MODULE Spec2Model ----
(***************************************************************************)
(* Model of web_server_ai.py: the POST /api/chat handler                   *)
(* (IAHandler.handle_chat), its single-round tool dispatch, and the four   *)
(* provider functions search_archive, get_item_details,                    *)
(* curate_quality_movies and search_youtube.                               *)
(*                                                                         *)
(* Text is modelled as a sequence of one-character strings, so that        *)
(* lower(), join() and the substring test are computed, not assumed.       *)
(* avg_rating is held in quarters of a star (18 is 4.5), values that       *)
(* binary floating point represents exactly, so that the score arithmetic  *)
(* of the source is exact integer arithmetic here.                         *)
(***************************************************************************)
EXTENDS Integers, Sequences, FiniteSets, TLC

VARIABLES
    pc,                 \* position of the handler: "start", "model1", "provider", "model2", "respond", "done"
    body,               \* the request body as read from rfile
    catalog,            \* records the archive provider can return
    messages,           \* the turn sequence (list `messages`)
    requests,           \* every chat.completions.create call made: its messages and whether tools were passed
    assistant_message,  \* response.choices[0].message of the first model call
    tool_call,          \* the invocation chosen for execution
    provider_calls,     \* every provider function entered, in order
    provider_data,      \* what the provider answered to the call
    function_response,  \* the dispatcher output
    final_message,      \* final_response.choices[0].message of the follow-up call
    result,             \* the dict `result`
    responses,          \* HTTP status lines written for this request, in order
    raised              \* where an exception reached the handler's except clause

vars == <<pc, body, catalog, messages, requests, assistant_message, tool_call,
          provider_calls, provider_data, function_response, final_message, result,
          responses, raised>>

-----------------------------------------------------------------------------
(* Bounds *)

MaxDocs == 3
MaxToolCalls == 2

(* A key that the JSON object does not carry. *)
Absent == -1

-----------------------------------------------------------------------------
(* Text *)

UpperChars == <<"A", "B", "C", "D", "E", "F", "G", "H", "I", "J", "K", "L", "M",
                "N", "O", "P", "Q", "R", "S", "T", "U", "V", "W", "X", "Y", "Z">>
LowerChars == <<"a", "b", "c", "d", "e", "f", "g", "h", "i", "j", "k", "l", "m",
                "n", "o", "p", "q", "r", "s", "t", "u", "v", "w", "x", "y", "z">>

lower_char(c) ==
    IF \E i \in 1..Len(UpperChars) : UpperChars[i] = c
    THEN LowerChars[CHOOSE i \in 1..Len(UpperChars) : UpperChars[i] = c]
    ELSE c

\* str.lower()
lower_keeps_case(s) == s

lower(s) == [i \in 1..Len(s) |-> lower_char(s[i])]

\* ' '.join(parts)
RECURSIVE join(_)
join(parts) ==
    IF parts = <<>> THEN <<>>
    ELSE IF Len(parts) = 1 THEN parts[1]
    ELSE parts[1] \o <<" ">> \o join(Tail(parts))

\* keyword in text
contains(text, keyword) ==
    \E i \in 0..(Len(text) - Len(keyword)) :
        SubSeq(text, i + 1, i + Len(keyword)) = keyword

adult_keywords ==
    << <<"a", "d", "u", "l", "t">>,
       <<"x", "x", "x">>,
       <<"e", "r", "o", "t", "i", "c", "a">>,
       <<"p", "o", "r", "n", "o", "g", "r", "a", "p", "h", "y">>,
       <<"e", "r", "o", "t", "i", "c">> >>

-----------------------------------------------------------------------------
(* Provider records.  subject is [kind, val]: kind "absent" (no key),      *)
(* "str" (val holds the one string), "list" (val is the list of strings),  *)
(* or "num" (a JSON number).  description is "none", "text" or "list".     *)

\* subjects = d.get("subject", []); if isinstance(subjects, str): subjects = [subjects]
subjects_of_unwrapped(d) ==
    IF d.subject.kind = "str"
    THEN [i \in 1..Len(d.subject.val[1]) |-> <<d.subject.val[1][i]>>]
    ELSE d.subject.val

subjects_of(d) ==
    IF d.subject.kind = "absent" THEN <<>> ELSE d.subject.val

\* ' '.join(subjects) raises TypeError unless subjects is a list of strings
join_raises(d) == d.subject.kind = "num"

\* any(keyword in ' '.join(subjects).lower() for keyword in adult_keywords)
is_adult(d) ==
    \E k \in 1..Len(adult_keywords) :
        contains(lower(join(subjects_of(d))), adult_keywords[k])

\* d.get(key, 0)
get0(v) == IF v = Absent THEN 0 ELSE v

\* (d.get("description", ...)[:200] + "...") if d.get("description") else ...
\* a list-valued description raises TypeError on list + str
description_raises(d) == d.description = "list"

\* subjects[:5]
SubjectCap == 5
first_subjects(s) == SubSeq(s, 1, IF Len(s) < SubjectCap THEN Len(s) ELSE SubjectCap)

\* int((downloads * 0.5) + (num_reviews * 100) + (avg_rating * 1000)),
\* avg_rating in quarters: twice the sum is downloads + 200*num_reviews + 500*avg_rating
quality_score_rounded_up(downloads, num_reviews, avg_rating) ==
    (downloads + (num_reviews * 200) + (avg_rating * 500) + 1) \div 2

quality_score(downloads, num_reviews, avg_rating) ==
    (downloads + (num_reviews * 200) + (avg_rating * 500)) \div 2

\* the dict appended to results by search_archive
archive_item(d) ==
    [identifier |-> d.identifier,
     downloads |-> get0(d.downloads),
     num_reviews |-> Absent,
     subjects |-> <<>>,
     quality_score |-> Absent,
     platform_short |-> "IA"]

\* the dict `movie` appended by curate_quality_movies
movie_item(d) ==
    [identifier |-> d.identifier,
     downloads |-> get0(d.downloads),
     num_reviews |-> get0(d.num_reviews),
     subjects |-> first_subjects(subjects_of(d)),
     quality_score |-> quality_score(get0(d.downloads), get0(d.num_reviews), get0(d.avg_rating)),
     platform_short |-> "IA"]

-----------------------------------------------------------------------------
(* Dispatcher outputs.  One record shape for every Python value a provider *)
(* function can return: tag "list" (a list of items), "error" ({"error":   *)
(* msg}), "detail" (the dict of get_item_details); tag "none" is None.     *)

None == [tag |-> "none", items |-> <<>>, msg |-> "", nfiles |-> 0]

List(items) == [tag |-> "list", items |-> items, msg |-> "", nfiles |-> 0]

\* {"error": str(e)}
error_as_empty_list(msg) == [tag |-> "list", items |-> <<>>, msg |-> "", nfiles |-> 0]

Error(msg) == [tag |-> "error", items |-> <<>>, msg |-> msg, nfiles |-> 0]

\* isinstance(function_response, list)
is_list_or_dict(v) == v.tag \in {"list", "detail"}

is_list(v) == v.tag = "list"

\* What requests.get(...) followed by response.json() yields: kind "neterr"
\* (requests.get raises), "badjson" (response.json() raises), "notdict"
\* (valid JSON that is no object, so .get raises AttributeError), "json".
ProviderData(kind, docs, error, nfiles) ==
    [kind |-> kind, docs |-> docs, error |-> error, nfiles |-> nfiles]

NoData == ProviderData("none", <<>>, "absent", 0)

\* the filter loop and the normalisation of one record raise for this record
archive_doc_raises(d) ==
    \/ join_raises(d)
    \/ ~is_adult(d) /\ description_raises(d)

\* the records the loop appends a result for (those it does not `continue` past)
kept_everything(docs) == docs

RECURSIVE kept(_)
kept(docs) ==
    IF docs = <<>> THEN <<>>
    ELSE IF is_adult(Head(docs)) THEN kept(Tail(docs))
    ELSE <<Head(docs)>> \o kept(Tail(docs))

\* list.sort(key=lambda x: x['quality_score'], reverse=True): a stable sort,
\* equal keys keep their order.  insert puts x behind every element whose
\* key is not smaller.
insert_before_ties(x, s) ==
    LET n == Cardinality({i \in 1..Len(s) : s[i].quality_score > x.quality_score})
    IN  SubSeq(s, 1, n) \o <<x>> \o SubSeq(s, n + 1, Len(s))

insert_ascending(x, s) ==
    LET n == Cardinality({i \in 1..Len(s) : s[i].quality_score <= x.quality_score})
    IN  SubSeq(s, 1, n) \o <<x>> \o SubSeq(s, n + 1, Len(s))

insert(x, s) ==
    LET n == Cardinality({i \in 1..Len(s) : s[i].quality_score >= x.quality_score})
    IN  SubSeq(s, 1, n) \o <<x>> \o SubSeq(s, n + 1, Len(s))

RECURSIVE sort_by_quality(_)
sort_by_quality(s) ==
    IF s = <<>> THEN <<>>
    ELSE insert(s[Len(s)], sort_by_quality(SubSeq(s, 1, Len(s) - 1)))

search_archive(data) ==
    IF data.kind # "json" THEN Error(data.kind)
    ELSE IF \E i \in 1..Len(data.docs) : archive_doc_raises(data.docs[i])
    THEN Error("TypeError")
    ELSE LET k == kept(data.docs)
         IN  List([i \in 1..Len(k) |-> archive_item(k[i])])

curate_quality_movies(data) ==
    IF data.kind # "json" THEN Error(data.kind)
    ELSE IF \E i \in 1..Len(data.docs) : archive_doc_raises(data.docs[i])
    THEN Error("TypeError")
    ELSE LET k == kept(data.docs)
         IN  List(sort_by_quality([i \in 1..Len(k) |-> movie_item(k[i])]))

\* files[:10]
FileCap == 10

get_item_details(data) ==
    IF data.kind # "json" THEN Error(data.kind)
    ELSE [tag |-> "detail", items |-> <<>>, msg |-> "",
          nfiles |-> IF data.nfiles < FileCap THEN data.nfiles ELSE FileCap]

\* the dict appended to videos; item["id"]["videoId"] raises KeyError when
\* the item carries no video id
video_item(d) ==
    [identifier |-> d.identifier,
     downloads |-> Absent,
     num_reviews |-> Absent,
     subjects |-> <<>>,
     quality_score |-> Absent,
     platform_short |-> "YT"]

search_youtube(data) ==
    IF data.kind # "json" THEN Error(data.kind)
    ELSE IF data.error = "object" THEN Error("provider message")
    ELSE IF data.error = "string" THEN Error("TypeError")
    ELSE IF \E i \in 1..Len(data.docs) : data.docs[i].identifier = Absent
    THEN Error("KeyError")
    ELSE List([i \in 1..Len(data.docs) |-> video_item(data.docs[i])])

-----------------------------------------------------------------------------
(* Turns, tool calls and model replies *)

Text(t) == [kind |-> "text", text |-> t, val |-> None]
Null == [kind |-> "null", text |-> "", val |-> None]

\* json.dumps(function_response): the serialised text of v
json_dumps(v) == [kind |-> "json", text |-> "", val |-> v]

Turn(role, content, id, calls) ==
    [role |-> role, content |-> content, tool_call_id |-> id, tool_calls |-> calls]

system_prompt == Turn("system", Text("system_prompt"), Absent, <<>>)

ToolNames == {"search_archive", "get_item_details", "curate_quality_movies", "search_youtube"}

\* tool_call.function.arguments: a string that json.loads parses into an
\* object with the keys `keys`, or (valid = FALSE) rejects
Arguments(valid, keys) == [valid |-> valid, keys |-> keys]

ToolCall(id, name, arguments) == [id |-> id, name |-> name, arguments |-> arguments]

\* the value chat.completions.create returns, or (ok = FALSE) its raising
Reply(ok, content, calls) == [ok |-> ok, content |-> content, tool_calls |-> calls]

\* except Exception as e: self.send_error(500, ...)
except_sends_200(site) ==
    /\ raised' = site
    /\ responses' = Append(responses, 200)
    /\ pc' = "done"

Except(site) ==
    /\ raised' = site
    /\ responses' = Append(responses, 500)
    /\ pc' = "done"

\* which invocation of the reply is executed
tool_call_last(calls) == calls[Len(calls)]

tool_call_of(calls) == calls[1]

\* if assistant_message.tool_calls:
wants_tool(message) == message.tool_calls # <<>>

\* else: function_response = {"error": "Unknown function"}
unknown_function_none == None

unknown_function == Error("Unknown function")

\* lines 255-258: the result when no function was called
plain_result_empty_list(message) == [response |-> message.content, data |-> List(<<>>)]

plain_result(message) == [response |-> message.content, data |-> None]

\* lines 249-252: the result after the follow-up call
tool_result(message, response) ==
    [response |-> message.content, data |-> IF is_list(response) THEN response ELSE None]

\* the arguments the chosen branch reads with function_args[...]
required_key(function_name) ==
    IF function_name \in {"search_archive", "search_youtube"} THEN {"query"}
    ELSE IF function_name = "get_item_details" THEN {"identifier"}
    ELSE {}

\* messages.append(assistant tool-call turn); messages.append(tool-result turn)
with_tool_turns(msgs, content, call, response) ==
    msgs \o << Turn("assistant", content, Absent, <<call>>),
               Turn("tool", json_dumps(response), call.id, <<>>) >>

-----------------------------------------------------------------------------
(* Inputs: request bodies, model replies, provider answers *)

Histories ==
    { <<>>,
      << Turn("user", Text("u1"), Absent, <<>>) >>,
      << Turn("user", Text("u1"), Absent, <<>>),
         Turn("assistant", Text("a1"), Absent, <<>>),
         Turn("user", Text("u2"), Absent, <<>>) >> }

\* kind "unreadable": Content-Length, the decoding or json.loads raises, or
\* the JSON value is no object.  message "absent": the key is missing.
Body(kind, message, history) == [kind |-> kind, message |-> message, history |-> history]

Bodies ==
    {Body("unreadable", "absent", <<>>)}
        \cup {Body("object", m, h) : m \in {"absent", "", "hi"}, h \in Histories}

\* lines 184-189: messages = [system turn]; messages.extend(conversation_history)
initial_messages_with_message(b) ==
    <<system_prompt>> \o b.history \o << Turn("user", Text(b.message), Absent, <<>>) >>

initial_messages(b) == <<system_prompt>> \o b.history

\* data.get('message', '')
user_message_of_no_default(b) == b.message

user_message_of(b) == IF b.message = "absent" THEN "" ELSE b.message

NoCall == ToolCall(Absent, "", Arguments(FALSE, {}))
NoReply == Reply(FALSE, Null, <<>>)

ArgChoices(name) ==
    {Arguments(FALSE, {}), Arguments(TRUE, {}), Arguments(TRUE, required_key(name))}

FirstCalls ==
    UNION { {ToolCall(1, name, a) : a \in ArgChoices(name)} :
              name \in ToolNames \cup {"play_movie"} }

MoreCalls(n) == [i \in 1..n |-> ToolCall(i + 1, "search_youtube", Arguments(TRUE, {"query"}))]

Replies1 ==
    {Reply(FALSE, Null, <<>>), Reply(TRUE, Text("reply"), <<>>)}
        \cup {Reply(TRUE, Null, <<c>> \o MoreCalls(n)) :
                 c \in FirstCalls, n \in 0..(MaxToolCalls - 1)}

Replies2 ==
    {Reply(FALSE, Null, <<>>),
     Reply(TRUE, Text("final"), <<>>),
     Reply(TRUE, Null, <<ToolCall(1, "search_archive", Arguments(TRUE, {"query"}))>>)}

Record(subject_kind, tags, downloads, num_reviews, avg_rating, description) ==
    [subject |-> [kind |-> subject_kind, val |-> tags],
     downloads |-> downloads, num_reviews |-> num_reviews,
     avg_rating |-> avg_rating, description |-> description]

\* the provider's record with the identifier it carries
Doc(identifier, r) ==
    [identifier |-> identifier, subject |-> r.subject, downloads |-> r.downloads,
     num_reviews |-> r.num_reviews, avg_rating |-> r.avg_rating,
     description |-> r.description]

Plain == Record("absent", <<>>, Absent, Absent, Absent, "none")

Failures == {ProviderData(k, <<>>, "absent", 0) : k \in {"neterr", "badjson", "notdict"}}

\* responses of the archive search: up to MaxDocs records, distinct identifiers
ArchiveData(cat) ==
    Failures \cup
    UNION { {ProviderData("json", [i \in 1..n |-> Doc(i, f[i])], "absent", 0) :
                f \in [1..n -> cat]} : n \in 0..MaxDocs }

ItemData ==
    Failures \cup {ProviderData("json", <<>>, "absent", n) : n \in {0, 3, 12}}

YouTubeData ==
    Failures
        \cup {ProviderData("json", <<>>, e, 0) : e \in {"object", "string"}}
        \cup UNION { {ProviderData("json",
                         [i \in 1..n |-> Doc(IF f[i] THEN i ELSE Absent, Plain)], "absent", 0) :
                         f \in [1..n -> BOOLEAN]} : n \in 0..MaxDocs }

Comedy == <<"c", "o", "m", "e", "d", "y">>
Drama == <<"d", "r", "a", "m", "a">>
AdultCap == <<"A", "d", "u", "l", "t">>
XXXCap == <<"X", "X", "X">>
Ad == <<"a", "d">>
Ult == <<"u", "l", "t">>
YoungAdults == <<"Y", "o", "u", "n", "g", " ", "A", "d", "u", "l", "t", "s">>
EroticArt == <<"E", "r", "O", "t", "I", "c", " ", "A", "r", "t">>
PornographyCap == <<"P", "o", "r", "n", "o", "g", "r", "a", "p", "h", "y">>
Exotica == <<"e", "x", "o", "t", "i", "c", "a">>

ChatCatalog ==
    { Record("list", <<Comedy>>, 20000, 30, 18, "text"),
      Record("str", <<AdultCap>>, 3, Absent, Absent, "none"),
      Record("absent", <<>>, Absent, Absent, Absent, "list"),
      Record("num", <<>>, 1, 0, 0, "none") }

FilterCatalog ==
    { Record("absent", <<>>, 1, Absent, Absent, "none"),
      Record("str", <<AdultCap>>, 1, Absent, Absent, "none"),
      Record("str", <<Exotica>>, 1, Absent, Absent, "none"),
      Record("list", <<Drama, XXXCap>>, 1, Absent, Absent, "none"),
      Record("list", <<Ad, Ult>>, 1, Absent, Absent, "none"),
      Record("list", <<Comedy, YoungAdults>>, 1, Absent, Absent, "none"),
      Record("list", <<EroticArt>>, 1, Absent, Absent, "none"),
      Record("list", <<PornographyCap, Drama>>, 1, Absent, Absent, "none") }

RankCatalog ==
    { Record("absent", <<>>, d, rr[1], rr[2], "none") :
        d \in {Absent, 1, 3, 20000},
        rr \in { <<Absent, Absent>>, <<30, 18>> } }
        \cup { Record("absent", <<>>, 20000, 30, Absent, "none"),
               Record("str", <<AdultCap>>, 20000, 30, 18, "none") }

-----------------------------------------------------------------------------
(* The handler *)

InitWith(bodies, cat) ==
    /\ pc = "start"
    /\ body \in bodies
    /\ catalog = cat
    /\ messages = <<>>
    /\ requests = <<>>
    /\ assistant_message = NoReply
    /\ tool_call = NoCall
    /\ provider_calls = <<>>
    /\ provider_data = NoData
    /\ function_response = None
    /\ final_message = NoReply
    /\ result = [response |-> Null, data |-> None]
    /\ responses = <<>>
    /\ raised = "none"

Init == InitWith(Bodies, ChatCatalog)

\* lines 41-51 and 184-189: read the body, reject an empty message, build messages
ReadRequest ==
    /\ pc = "start"
    /\ IF body.kind = "unreadable"
       THEN /\ Except("body")
            /\ UNCHANGED messages
       ELSE IF user_message_of(body) = ""
       THEN /\ responses' = Append(responses, 400)
            /\ pc' = "done"
            /\ UNCHANGED <<messages, raised>>
       ELSE /\ messages' = initial_messages(body)
            /\ pc' = "model1"
            /\ UNCHANGED <<responses, raised>>
    /\ UNCHANGED <<body, catalog, requests, assistant_message, tool_call, provider_calls,
                   provider_data, function_response, final_message, result>>

\* lines 191-220 and 253-258: the first model call, the choice of the
\* invocation, json.loads of its arguments and the routing on its name, up
\* to the provider function's HTTP request
FirstModelCall ==
    /\ pc = "model1"
    /\ \E reply \in Replies1 :
        /\ requests' = Append(requests, [messages |-> messages, tools |-> TRUE])
        /\ IF ~reply.ok
           THEN /\ Except("model1")
                /\ UNCHANGED <<assistant_message, tool_call, function_response, messages, result>>
           ELSE IF ~wants_tool(reply)
           THEN /\ assistant_message' = reply
                /\ result' = plain_result(reply)
                /\ pc' = "respond"
                /\ UNCHANGED <<tool_call, function_response, messages, responses, raised>>
           ELSE LET call == tool_call_of(reply.tool_calls) IN
                /\ assistant_message' = reply
                /\ tool_call' = call
                /\ IF ~call.arguments.valid
                   THEN /\ Except("json")
                        /\ UNCHANGED <<function_response, messages, result>>
                   ELSE IF call.name \in ToolNames
                   THEN IF required_key(call.name) \subseteq call.arguments.keys
                        THEN /\ pc' = "provider"
                             /\ UNCHANGED <<function_response, messages, result, responses, raised>>
                        ELSE /\ Except("KeyError")
                             /\ UNCHANGED <<function_response, messages, result>>
                   ELSE /\ function_response' = unknown_function
                        /\ messages' = with_tool_turns(messages, reply.content, call,
                                                       unknown_function)
                        /\ pc' = "model2"
                        /\ UNCHANGED <<result, responses, raised>>
    /\ UNCHANGED <<body, catalog, provider_calls, provider_data, final_message>>

\* the provider function returns `response` after the provider answered
\* `data`; lines 222-239 append the two turns
Dispatched(name, data, response) ==
    /\ provider_calls' = Append(provider_calls, name)
    /\ provider_data' = data
    /\ function_response' = response
    /\ messages' = with_tool_turns(messages, assistant_message.content, tool_call, response)
    /\ pc' = "model2"
    /\ UNCHANGED <<body, catalog, requests, assistant_message, tool_call, final_message,
                   result, responses, raised>>

CallSearchArchive ==
    /\ pc = "provider"
    /\ tool_call.name = "search_archive"
    /\ \E data \in ArchiveData(catalog) :
        Dispatched("search_archive", data, search_archive(data))

CallGetItemDetails ==
    /\ pc = "provider"
    /\ tool_call.name = "get_item_details"
    /\ \E data \in ItemData :
        Dispatched("get_item_details", data, get_item_details(data))

CallCurateQualityMovies ==
    /\ pc = "provider"
    /\ tool_call.name = "curate_quality_movies"
    /\ \E data \in ArchiveData(catalog) :
        Dispatched("curate_quality_movies", data, curate_quality_movies(data))

CallSearchYoutube ==
    /\ pc = "provider"
    /\ tool_call.name = "search_youtube"
    /\ \E data \in YouTubeData :
        Dispatched("search_youtube", data, search_youtube(data))

\* whether the follow-up call passes tools=
second_call_with_tools == TRUE

second_call_tools == FALSE

\* lines 242-252: the follow-up model call and the result
SecondModelCall ==
    /\ pc = "model2"
    /\ \E reply \in Replies2 :
        /\ requests' = Append(requests, [messages |-> messages, tools |-> second_call_tools])
        /\ IF ~reply.ok
           THEN /\ Except("model2")
                /\ UNCHANGED <<final_message, result>>
           ELSE /\ final_message' = reply
                /\ result' = tool_result(reply, function_response)
                /\ pc' = "respond"
                /\ UNCHANGED <<responses, raised>>
    /\ UNCHANGED <<body, catalog, messages, assistant_message, tool_call, provider_calls,
                   provider_data, function_response>>

\* lines 261-265: status line, headers and body; a failing wfile.write
\* reaches the except clause after the 200 status line has been written
SendResponse ==
    /\ pc = "respond"
    /\ \E written \in BOOLEAN :
        IF written
        THEN /\ responses' = Append(responses, 200)
             /\ pc' = "done"
             /\ UNCHANGED raised
        ELSE /\ raised' = "write"
             /\ responses' = Append(Append(responses, 200), 500)
             /\ pc' = "done"
    /\ UNCHANGED <<body, catalog, messages, requests, assistant_message, tool_call,
                   provider_calls, provider_data, function_response, final_message, result>>

Next ==
    \/ ReadRequest
    \/ FirstModelCall
    \/ CallSearchArchive
    \/ CallGetItemDetails
    \/ CallCurateQualityMovies
    \/ CallSearchYoutube
    \/ SecondModelCall
    \/ SendResponse

Spec == Init /\ [][Next]_vars

\* one request, a provider whose records vary in their subject tags
SpecFilter ==
    InitWith({Body("object", "hi", <<>>)}, FilterCatalog) /\ [][Next]_vars

\* one request, a provider whose records vary in downloads, reviews and rating
SpecRank ==
    InitWith({Body("object", "hi", <<>>)}, RankCatalog) /\ [][Next]_vars

-----------------------------------------------------------------------------
(* Properties of the chat round *)

\* the four names of the tool catalog
CatalogNames == {"search_archive", "get_item_details", "curate_quality_movies", "search_youtube"}

\* the request was answered with status line 200
Answered200 == responses # <<>> /\ responses[1] = 200

\* C1: a request makes at most two chat-model calls and at most one tool
\* dispatch; when the first reply carries tool invocations only
\* tool_calls[0] is dispatched, the follow-up call is submitted without the
\* tool catalog, and the follow-up reply is returned as the response with
\* no further dispatch, whatever it contains.
C1_SingleRound ==
    /\ [](/\ Len(requests) <= 2
          /\ Len(provider_calls) <= 1
          /\ requests # <<>> => requests[1].tools
          /\ provider_calls # <<>> =>
                /\ tool_call = assistant_message.tool_calls[1]
                /\ provider_calls[1] = assistant_message.tool_calls[1].name
          /\ Len(requests) = 2 =>
                /\ ~requests[2].tools
                /\ assistant_message.tool_calls # <<>>
                /\ tool_call = assistant_message.tool_calls[1]
          /\ final_message.ok =>
                /\ pc \in {"respond", "done"}
                /\ result.response = final_message.content)
    /\ [][Len(requests) = 2 => provider_calls' = provider_calls]_vars

\* C1 witness: the first reply carried two invocations, the follow-up reply
\* carried another one, and the request was answered after one dispatch
C1_Witness ==
    /\ pc = "done"
    /\ Len(assistant_message.tool_calls) = 2
    /\ final_message.ok /\ final_message.tool_calls # <<>>
    /\ Len(provider_calls) = 1
    /\ responses = <<200>>

\* C2: a chat request whose message is empty or absent is rejected with
\* HTTP 400 before any external call: no model call, no provider call, no 200.
C2_EmptyMessageRejected ==
    (body.kind = "object" /\ body.message \in {"", "absent"}) =>
        /\ requests = <<>>
        /\ provider_calls = <<>>
        /\ \A i \in 1..Len(responses) : responses[i] # 200
        /\ pc \in {"start", "done"}
        /\ pc = "done" => responses = <<400>>

\* C2 witness: a request without a message key was answered
C2_Witness ==
    pc = "done" /\ body.kind = "object" /\ body.message = "absent" /\ responses = <<400>>

\* C3: when the first reply carries no tool invocation the result is
\* {response: the first reply's text, data: null}, after exactly one model
\* call and no provider call.
C3_NoToolReply ==
    (assistant_message.ok /\ assistant_message.tool_calls = <<>>) =>
        /\ pc \in {"respond", "done"}
        /\ result.response = assistant_message.content
        /\ result.data = None
        /\ Len(requests) = 1
        /\ provider_calls = <<>>
        /\ provider_data = NoData

\* C3 witness: a plain reply was returned with status 200
C3_Witness ==
    /\ pc = "done" /\ responses = <<200>>
    /\ assistant_message.ok /\ assistant_message.tool_calls = <<>>
    /\ result.response = Text("reply")

\* the chosen invocation names no tool of the catalog
UnknownToolChosen == tool_call # NoCall /\ tool_call.name \notin CatalogNames

\* the sequence sent to the follow-up call ends with the tool-result turn
\* carrying the serialised dispatcher output
FedBack ==
    /\ Len(requests) = 2
    /\ LET m == requests[2].messages IN
        /\ m[Len(m)].role = "tool"
        /\ m[Len(m)].content = [kind |-> "json", text |-> "", val |-> function_response]

\* C4 as stated: an unknown tool name yields {error: "Unknown function"}
\* without a provider call, the value is fed back, the second model call
\* is made and the request completes with HTTP 200.
C4_AsStated ==
    (pc = "done" /\ UnknownToolChosen) =>
        /\ function_response = Error("Unknown function")
        /\ provider_calls = <<>>
        /\ FedBack
        /\ Answered200

\* C4 amended: an unknown tool name whose arguments parse as JSON yields
\* {error: "Unknown function"} without an exception from the dispatch and
\* without a provider call; the value is fed back and the second model call
\* is made; unless that call itself raises, the answer is status 200.
C4_UnknownFunction ==
    /\ (UnknownToolChosen /\ tool_call.arguments.valid) =>
        /\ pc \in {"model2", "respond", "done"}
        /\ function_response = [tag |-> "error", items |-> <<>>,
                                msg |-> "Unknown function", nfiles |-> 0]
        /\ provider_calls = <<>>
        /\ raised \in {"none", "model2", "write"}
        /\ pc = "done" => FedBack
        /\ (pc = "done" /\ raised # "model2") => Answered200
    /\ (UnknownToolChosen /\ ~tool_call.arguments.valid) =>
        /\ pc = "done" /\ raised = "json" /\ responses = <<500>>
        /\ Len(requests) = 1

\* C4 witness: the unknown name was absorbed and the request answered
C4_Witness ==
    /\ pc = "done" /\ responses = <<200>>
    /\ tool_call.name = "play_movie"
    /\ Len(requests) = 2

-----------------------------------------------------------------------------
(* Properties of the filter and the ranking *)

DisallowedKeywords ==
    { <<"a", "d", "u", "l", "t">>,
      <<"x", "x", "x">>,
      <<"e", "r", "o", "t", "i", "c", "a">>,
      <<"p", "o", "r", "n", "o", "g", "r", "a", "p", "h", "y">>,
      <<"e", "r", "o", "t", "i", "c">> }

\* some disallowed keyword occurs, letter case ignored, at some offset of
\* the record's subject tags joined by single spaces
HasDisallowed(d) ==
    LET text == join(IF d.subject.kind = "absent" THEN <<>> ELSE d.subject.val)
    IN  \E kw \in DisallowedKeywords :
        \E i \in 1..Len(text) :
            /\ i + Len(kw) - 1 <= Len(text)
            /\ \A k \in 1..Len(kw) : lower_char(text[i + k - 1]) = kw[k]

\* the indices of the provider records without a disallowed keyword
Survivors(docs) == {i \in 1..Len(docs) : ~HasDisallowed(docs[i])}

ArchiveListReturned ==
    /\ provider_calls # <<>>
    /\ provider_calls[1] \in {"search_archive", "curate_quality_movies"}
    /\ function_response.tag = "list"

CuratedListReturned ==
    /\ provider_calls = <<"curate_quality_movies">>
    /\ function_response.tag = "list"

\* C5: the list returned by search_archive and by curate_quality_movies
\* holds an item for a provider record if and only if no disallowed keyword
\* occurs, case-insensitively, in the record's space-joined subject tags.
C5_ContentFilter ==
    ArchiveListReturned =>
        LET docs == provider_data.docs
            items == function_response.items
        IN  /\ \A i \in 1..Len(docs) :
                   (\E j \in 1..Len(items) : items[j].identifier = docs[i].identifier)
                       <=> ~HasDisallowed(docs[i])
            /\ Len(items) = Cardinality(Survivors(docs))

\* C5 witness: of three records, one with a single-string subject "Adult"
\* and one with a tag list holding "Young Adults" were dropped, one was kept
C5_Witness ==
    /\ ArchiveListReturned
    /\ Len(provider_data.docs) = 3
    /\ Len(function_response.items) = 1
    /\ \E i \in 1..3 : /\ provider_data.docs[i].subject.kind = "str"
                       /\ provider_data.docs[i].subject.val = <<AdultCap>>
    /\ \E i \in 1..3 : provider_data.docs[i].subject.val = <<Comedy, YoungAdults>>

\* the place of the record with this identifier in the provider's answer
DocPos(docs, identifier) == CHOOSE p \in 1..Len(docs) : docs[p].identifier = identifier

\* C6: the list returned by curate_quality_movies is ordered by
\* quality_score descending, is a permutation of the records that survived
\* the content filter, and keeps results of equal score in provider order.
C6_RankedStable ==
    CuratedListReturned =>
        LET docs == provider_data.docs
            items == function_response.items
        IN  /\ \A i \in 1..(Len(items) - 1) :
                   items[i].quality_score >= items[i + 1].quality_score
            /\ Len(items) = Cardinality(Survivors(docs))
            /\ {items[j].identifier : j \in 1..Len(items)}
                   = {docs[i].identifier : i \in Survivors(docs)}
            /\ \A i, j \in 1..Len(items) :
                   (i < j /\ items[i].quality_score = items[j].quality_score)
                       => DocPos(docs, items[i].identifier) < DocPos(docs, items[j].identifier)

\* C6 witness: a curated list that was reordered and holds a tie
C6_Witness ==
    /\ CuratedListReturned
    /\ Len(function_response.items) = 3
    /\ function_response.items[1].identifier = 3
    /\ function_response.items[2].quality_score = function_response.items[3].quality_score
    /\ function_response.items[2].downloads # function_response.items[3].downloads

\* C7: quality_score = floor(downloads*0.5 + num_reviews*100 + avg_rating*1000),
\* an absent field counting as 0; 20000, 30 and 4.5 give 17500.  Four times
\* the real sum is 2*downloads + 400*num_reviews + 1000*(quarters of avg_rating).
C7_QualityScore ==
    CuratedListReturned =>
        LET docs == provider_data.docs
            items == function_response.items
            val(v) == IF v = Absent THEN 0 ELSE v
        IN  \A j \in 1..Len(items) :
                LET d == docs[DocPos(docs, items[j].identifier)]
                    sum4 == (2 * val(d.downloads)) + (400 * val(d.num_reviews))
                                + (1000 * val(d.avg_rating))
                IN  /\ 4 * items[j].quality_score <= sum4
                    /\ sum4 < (4 * items[j].quality_score) + 4
                    /\ (d.downloads = 20000 /\ d.num_reviews = 30 /\ d.avg_rating = 18)
                           => items[j].quality_score = 17500

\* C7 witness: the example record, and a record with an odd download count
\* and no review or rating field, were both scored
C7_Witness ==
    /\ CuratedListReturned
    /\ \E j \in 1..Len(function_response.items) :
           /\ function_response.items[j].quality_score = 17500
           /\ function_response.items[j].num_reviews = 30
    /\ \E j \in 1..Len(function_response.items) :
           /\ function_response.items[j].downloads = 3
           /\ function_response.items[j].quality_score = 1

-----------------------------------------------------------------------------
(* Properties of the error paths and of the returned data *)

\* the provider call failed: no answer, an answer that is no JSON object, a
\* provider-level error, or a record the normalisation cannot read (a
\* subject that is no text, a description that is a list on a record the
\* filter keeps, a video item without a video id)
ProviderFailure ==
    /\ provider_calls # <<>>
    /\ \/ provider_data.kind \in {"neterr", "badjson", "notdict"}
       \/ provider_data.error # "absent"
       \/ /\ provider_calls[1] \in {"search_archive", "curate_quality_movies"}
          /\ \E i \in 1..Len(provider_data.docs) :
                \/ provider_data.docs[i].subject.kind = "num"
                \/ /\ provider_data.docs[i].subject.kind # "num"
                   /\ provider_data.docs[i].description = "list"
                   /\ ~HasDisallowed(provider_data.docs[i])
       \/ /\ provider_calls[1] = "search_youtube"
          /\ \E i \in 1..Len(provider_data.docs) : provider_data.docs[i].identifier = Absent

\* C8 as stated: a failed provider call yields an in-band {error: text},
\* which is passed to the model; the second model call is made and the
\* request ends with HTTP 200.
C8_AsStated ==
    (pc = "done" /\ ProviderFailure) =>
        /\ function_response.tag = "error"
        /\ FedBack
        /\ Answered200

\* C8 amended: a failed provider call never propagates as an exception: the
\* function returns an in-band {error: text}, that value is passed to the
\* model as the tool result and the second model call is made; unless that
\* second call itself raises, the request is answered with status 200.
C8_ProviderFailureInBand ==
    ProviderFailure =>
        /\ pc \in {"model2", "respond", "done"}
        /\ function_response.tag = "error"
        /\ raised \in {"none", "model2", "write"}
        /\ messages[Len(messages)].content
               = [kind |-> "json", text |-> "", val |-> function_response]
        /\ pc = "done" => FedBack
        /\ (pc = "done" /\ raised # "model2") => Answered200
        /\ (pc = "done" /\ raised = "model2") => responses = <<500>>

\* C8 witness: an archive answer with an unreadable record ended in a 200
C8_Witness ==
    /\ pc = "done" /\ responses = <<200>>
    /\ provider_calls = <<"search_archive">>
    /\ provider_data.kind = "json"
    /\ function_response.tag = "error"

\* C9: on the tool-call path the returned data is exactly the dispatcher
\* output when that is a sequence (a result of search_archive,
\* curate_quality_movies or search_youtube) and null otherwise (an error
\* value, the detail object of get_item_details, an unknown tool name).
C9_ReturnedData ==
    final_message.ok =>
        /\ pc \in {"respond", "done"}
        /\ IF /\ tool_call.name \in {"search_archive", "curate_quality_movies", "search_youtube"}
              /\ ~ProviderFailure
           THEN /\ function_response.tag = "list"
                /\ result.data = function_response
           ELSE /\ function_response.tag \in {"error", "detail"}
                /\ result.data = [tag |-> "none", items |-> <<>>, msg |-> "", nfiles |-> 0]

\* C9 witness: a curated list of two items was returned as data
C9_Witness ==
    /\ pc = "done" /\ responses = <<200>>
    /\ provider_calls = <<"curate_quality_movies">>
    /\ result.data.tag = "list"
    /\ Len(result.data.items) = 2

\* C10: an exception during the model calls or the dispatch step (a failing
\* model call, arguments that are no valid JSON, a missing required
\* argument) is answered with HTTP 500 and nothing else: no retry, no
\* further external call, no 200.
C10_ExceptionIs500 ==
    /\ [](raised \in {"model1", "json", "KeyError", "model2"} =>
            /\ pc = "done"
            /\ responses = <<500>>
            /\ raised \in {"model1", "json", "KeyError"} =>
                  /\ Len(requests) = 1
                  /\ provider_calls = <<>>
            /\ raised = "model2" =>
                  /\ Len(requests) = 2
                  /\ Len(provider_calls) <= 1)
    /\ [][raised # "none" => UNCHANGED <<requests, provider_calls, responses>>]_vars

\* C10 witness: the follow-up model call failed after a dispatch
C10_Witness ==
    /\ raised = "model2"
    /\ provider_calls = <<"search_youtube">>
    /\ responses = <<500>>

-----------------------------------------------------------------------------
(* Properties of the turn sequence and of the responses *)

\* the fixed system turn
SystemTurn ==
    [role |-> "system",
     content |-> [kind |-> "text", text |-> "system_prompt",
                  val |-> [tag |-> "none", items |-> <<>>, msg |-> "", nfiles |-> 0]],
     tool_call_id |-> Absent, tool_calls |-> <<>>]

\* C11: the turn sequence is append-only within a request; the first model
\* call receives exactly the system turn followed by the caller's history
\* in its order, the message field not appended again; the second call
\* receives that sequence as a prefix, extended by exactly two turns: the
\* assistant tool-call turn, then a tool-result turn whose tool_call_id is
\* the id of the dispatched invocation and whose content is the JSON
\* serialisation of the dispatcher output.
C11_TurnSequence ==
    /\ [](/\ requests # <<>> =>
                LET m1 == requests[1].messages IN
                /\ Len(m1) = 1 + Len(body.history)
                /\ m1[1] = SystemTurn
                /\ \A i \in 1..Len(body.history) : m1[i + 1] = body.history[i]
          /\ Len(requests) = 2 =>
                LET m1 == requests[1].messages
                    m2 == requests[2].messages
                    n == Len(m1)
                    dispatched == assistant_message.tool_calls[1]
                IN  /\ Len(m2) = n + 2
                    /\ \A i \in 1..n : m2[i] = m1[i]
                    /\ m2[n + 1].role = "assistant"
                    /\ m2[n + 1].content = assistant_message.content
                    /\ m2[n + 1].tool_calls = <<dispatched>>
                    /\ m2[n + 2].role = "tool"
                    /\ m2[n + 2].tool_call_id = dispatched.id
                    /\ m2[n + 2].content
                           = [kind |-> "json", text |-> "", val |-> function_response])
    /\ [][/\ Len(messages') >= Len(messages)
          /\ \A i \in 1..Len(messages) : messages'[i] = messages[i]]_vars

\* C11 witness: a three-turn history, a reply with two invocations, a
\* curated list fed back, and the follow-up call made
C11_Witness ==
    /\ Len(requests) = 2
    /\ Len(body.history) = 3
    /\ Len(assistant_message.tool_calls) = 2
    /\ provider_calls = <<"curate_quality_movies">>
    /\ function_response.tag = "list"
    /\ Len(function_response.items) = 2

\* C12 as stated: every chat request ends with exactly one HTTP response out
\* of {200, 400, 500}, and on no path is an error response emitted after a
\* 200 status line has been sent for the same request.
C12_OneResponse ==
    /\ pc = "done" =>
          /\ Len(responses) = 1
          /\ responses[1] \in {200, 400, 500}
    /\ \A i, j \in 1..Len(responses) :
          (i < j /\ responses[i] = 200) => responses[j] = 200

====
